---- MODULE Spec2Model ----
(***************************************************************************)
(* A model of the medical-triage API of backend/streamlit_app.py:          *)
(*   - the verification-code store (send / resend / verify), once with     *)
(*     whole handlers as steps and once with the handlers' accesses to the *)
(*     shared mapping as separate steps of concurrent requests;            *)
(*   - the generation of a verification code, digit by digit;              *)
(*   - the triage orchestrator and the fallback rule engine;               *)
(*   - the facility locator.                                               *)
(* Each part has its own specification over the same variables; the        *)
(* variables of the other parts stay at their initial value.               *)
(***************************************************************************)
EXTENDS Integers, Sequences, FiniteSets, TLC

VARIABLES
    verification_codes, \* the process-wide dict contact -> entry; its DOMAIN is its keys
    now,                \* datetime.now(), in minutes
    request,            \* the JSON body of the request handled last
    response,           \* the JSON answer (and HTTP status) of that request
    before,             \* history: verification_codes before the last step
    accepted,           \* history: verified:true answers per contact since its last send/resend
    issued,             \* history: the last two codes issued per contact, oldest first
    digits,             \* the list the code generator is building
    new_code,           \* the code the generator returned
    patient_data,       \* the body of an analyze-symptoms request
    models,             \* emergency_model / specialty_model / wait_time_model: loaded or None
    calls,              \* what the three models do when called for this request
    results,            \* the assessment get_ml_predictions returns
    level,              \* the value fallback_emergency_level returned
    distances,          \* calculate_distance(user, facility) of each facility, fixed point
    radius,             \* the radius of the nearby-facilities request, fixed point
    facilities,         \* the 'facilities' list of the nearby-facilities answer
    pc,                 \* concurrent requests: where each handler stands
    stored_data,        \* concurrent requests: verify_code's local stored_data
    local_code,         \* concurrent requests: the code a request carries or generated
    outcome,            \* concurrent requests: the answer of each finished request
    written             \* history: the entries stored by the concurrent requests, in order

vars == <<verification_codes, now, request, response, before, accepted, issued,
          digits, new_code,
          patient_data, models, calls, results, level, distances, radius,
          facilities, pc, stored_data, local_code, outcome, written>>

storeVars == <<verification_codes, now, request, response, before, accepted, issued>>
genVars == <<digits, new_code>>
triageVars == <<patient_data, models, calls, results>>
fallbackVars == <<level>>
facilityVars == <<distances, radius, facilities>>
concVars == <<pc, stored_data, local_code, outcome, written>>

\* Python's None where the other values are records, lists or mappings
\* (dict.get of an absent key, a variable not set yet), and where they are strings.
None == <<>>
NoneStr == "None"

-----------------------------------------------------------------------------
(* Bounds of the model *)

MaxTime == 15           \* the clock runs from 0 to MaxTime minutes
TickMinutes == 5        \* the minutes that pass between two requests, when time passes
MaxSampleDigit == 1     \* codes tried: one repeated digit 0..MaxSampleDigit, or 9
MaxClassIdx == 4        \* the emergency model predicts a class of -MaxClassIdx..MaxClassIdx
MaxSpecIdx == 10        \* the specialty model predicts a class of -MaxSpecIdx..MaxSpecIdx
UnitsPerTenth == 3      \* distances and radii are counted in 1/UnitsPerTenth of 0.1 mile
MaxDist == 6            \* distances and radii are 0..MaxDist of these units

-----------------------------------------------------------------------------
(* Verification codes: np.random.randint, str, ''.join *)

CODE_LEN == 6
RANDINT_LOW == 0
RANDINT_HIGH == 9
CODE_TTL == 10

\* np.random.randint(low, high): an integer of the half-open range [low, high)
randint(low, high) == low..(high - 1)

DigitChars == <<"0", "1", "2", "3", "4", "5", "6", "7", "8", "9">>

\* str(d) of a one-digit integer: its character
str(d) == DigitChars[d + 1]

\* the characters one position of a generated code can hold
code_digits == {str(d) : d \in randint(RANDINT_LOW, RANDINT_HIGH)}

\* ''.join([str(np.random.randint(0, 9)) for _ in range(6)]): the strings it can return
generated_codes == [1..CODE_LEN -> code_digits]

\* the six-character strings the model tries as codes, one repeated digit each
SampleDigits == (0..MaxSampleDigit) \cup {9}
SampleCodes == {[i \in 1..CODE_LEN |-> str(d)] : d \in SampleDigits}

Contacts == {"a@x.com", "555-0100"}
PatientIds == {"P1"}
Methods == {"email"}

\* the codes a verify-code request carries: a sample code, or none at all
VerifyCodes == SampleCodes \cup {None}

-----------------------------------------------------------------------------
(* The verification-code store, one handler per step *)

\* dict.get(key): the value, or None for an absent key
get(dict, key) == IF key \in DOMAIN dict THEN dict[key] ELSE None

\* dict[key] = value: the key is added or its value replaced as a whole
put(dict, key, value) ==
    [k \in DOMAIN dict \cup {key} |-> IF k = key THEN value ELSE dict[k]]

\* del dict[key], for a key the dict holds
del(dict, key) == [k \in DOMAIN dict \ {key} |-> dict[k]]

\* the entry send_verification_code stores
send_entry_keep_expiry(code, t, patient_id, old) ==
    [code |-> code,
     expires |-> IF old = None THEN t + CODE_TTL ELSE old.expires,
     patient_id |-> patient_id]
send_entry(code, t, patient_id, old) ==
    [code |-> code, expires |-> t + CODE_TTL, patient_id |-> patient_id]

\* the entry resend_code stores
resend_entry(code, t) == [code |-> code, expires |-> t + CODE_TTL]

\* datetime.now() > stored_data['expires']
is_expired_never(stored, t) == FALSE
is_expired(stored, t) == t > stored.expires

\* verify_code's answer for the entry it read
VerifyAnswer(stored, code, t) ==
    IF stored = None
    THEN [status |-> 200, verified |-> FALSE, error |-> "No verification code found"]
    ELSE IF is_expired(stored, t)
    THEN [status |-> 200, verified |-> FALSE, error |-> "Verification code expired"]
    ELSE IF stored.code = code
    THEN [status |-> 200, verified |-> TRUE, message |-> "Verification successful"]
    ELSE [status |-> 200, verified |-> FALSE, error |-> "Invalid verification code"]

\* whether verify_code runs del verification_codes[contact] for the entry it read
verify_deletes_on_expiry_only(stored, code, t) ==
    stored # None /\ is_expired(stored, t)
verify_deletes(stored, code, t) ==
    stored # None /\ (is_expired(stored, t) \/ stored.code = code)

\* history: code was issued for a contact whose issued codes were old
Issue(old, code) == IF Len(old) < 2 THEN Append(old, code) ELSE <<old[2], code>>

send_verification_code(contact, method, patient_id, code) ==
    /\ code \in generated_codes
    /\ verification_codes' =
           put(verification_codes, contact,
               send_entry(code, now, patient_id, get(verification_codes, contact)))
    /\ request' = [endpoint |-> "send-verification", contact |-> contact,
                   patientId |-> patient_id]
    /\ response' = [status |-> 200, success |-> TRUE, demo_code |-> code]
    /\ before' = verification_codes
    /\ accepted' = [accepted EXCEPT ![contact] = 0]
    /\ issued' = [issued EXCEPT ![contact] = Issue(@, code)]
    /\ UNCHANGED now

resend_code(contact, method, code) ==
    /\ code \in generated_codes
    /\ verification_codes' = put(verification_codes, contact, resend_entry(code, now))
    /\ request' = [endpoint |-> "resend-code", contact |-> contact]
    /\ response' = [status |-> 200, success |-> TRUE, demo_code |-> code]
    /\ before' = verification_codes
    /\ accepted' = [accepted EXCEPT ![contact] = 0]
    /\ issued' = [issued EXCEPT ![contact] = Issue(@, code)]
    /\ UNCHANGED now

verify_code(contact, code) ==
    LET stored == get(verification_codes, contact)
        answer == VerifyAnswer(stored, code, now)
    IN  /\ verification_codes' =
               IF verify_deletes(stored, code, now)
               THEN del(verification_codes, contact)
               ELSE verification_codes
        /\ request' = [endpoint |-> "verify-code", contact |-> contact, code |-> code]
        /\ response' = answer
        /\ before' = verification_codes
        /\ accepted' = IF answer.verified /\ accepted[contact] < 2
                       THEN [accepted EXCEPT ![contact] = @ + 1]
                       ELSE accepted
        /\ UNCHANGED <<now, issued>>

\* time passes with no request: nothing runs, nothing sweeps the dict
Tick ==
    /\ now + TickMinutes <= MaxTime
    /\ now' = now + TickMinutes
    /\ request' = None
    /\ response' = None
    /\ before' = verification_codes
    /\ UNCHANGED <<verification_codes, accepted, issued>>

IdleStore ==
    /\ verification_codes = <<>>
    /\ now = 0
    /\ request = None
    /\ response = None
    /\ before = None
    /\ accepted = [c \in Contacts |-> 0]
    /\ issued = [c \in Contacts |-> <<>>]

IdleGen == digits = <<>> /\ new_code = None
IdleTriage ==
    /\ patient_data = None
    /\ models = None
    /\ calls = None
    /\ results = None
IdleFallback == level = NoneStr
IdleFacility ==
    /\ distances = None
    /\ radius = None
    /\ facilities = None
IdleConc ==
    /\ pc = None
    /\ stored_data = None
    /\ local_code = None
    /\ outcome = None
    /\ written = <<>>

InitStore ==
    /\ IdleStore /\ IdleGen /\ IdleTriage /\ IdleFallback /\ IdleFacility /\ IdleConc

NextStore ==
    \/ /\ \E c \in Contacts, m \in Methods, p \in PatientIds, k \in SampleCodes :
              send_verification_code(c, m, p, k)
       /\ UNCHANGED <<genVars, triageVars, fallbackVars, facilityVars, concVars>>
    \/ /\ \E c \in Contacts, m \in Methods, k \in SampleCodes : resend_code(c, m, k)
       /\ UNCHANGED <<genVars, triageVars, fallbackVars, facilityVars, concVars>>
    \/ /\ \E c \in Contacts, k \in VerifyCodes : verify_code(c, k)
       /\ UNCHANGED <<genVars, triageVars, fallbackVars, facilityVars, concVars>>
    \/ /\ Tick
       /\ UNCHANGED <<genVars, triageVars, fallbackVars, facilityVars, concVars>>

SpecStore == InitStore /\ [][NextStore]_vars

-----------------------------------------------------------------------------
(* Claims about the store, one handler per step *)

HasError(r, text) == "error" \in DOMAIN r /\ r.error = text
Handled(endpoint) == request # None /\ request.endpoint = endpoint
LastIssued(c) == issued[c][Len(issued[c])]

\* the entry the request found for its contact, and what it left
Found == get(before, request.contact)
Left == get(verification_codes, request.contact)
OthersUntouched ==
    \A d \in Contacts \ {request.contact} : get(verification_codes, d) = get(before, d)

\* C1: on a live entry, verify-code with another code answers verified:false and
\* leaves the entry as it was; with the stored code it answers verified:true and
\* removes the entry; with no entry it answers 'No verification code found'; so
\* between two sends a contact gets verified:true at most once.
C1_VerifyOnce ==
    /\ Handled("verify-code") =>
          /\ (Found # None /\ ~(now > Found.expires) /\ request.code # Found.code) =>
                /\ ~response.verified
                /\ verification_codes = before
          /\ (Found # None /\ ~(now > Found.expires) /\ request.code = Found.code) =>
                /\ response.verified
                /\ Left = None
          /\ Found = None =>
                /\ ~response.verified
                /\ HasError(response, "No verification code found")
    /\ \A c \in Contacts : accepted[c] <= 1

\* C1 witness: a code was accepted once, its entry is gone, and the same code was
\* tried again and answered 'No verification code found'.
C1_Witness ==
    /\ Handled("verify-code")
    /\ issued[request.contact] # <<>>
    /\ request.code = LastIssued(request.contact)
    /\ accepted[request.contact] = 1
    /\ Found = None
    /\ HasError(response, "No verification code found")

\* C2: an entry whose expiry is earlier than now makes verify-code answer
\* 'expired' whatever the code, and removes the entry, after which the answer is
\* 'No verification code found'; only verify-code ever removes an entry.
C2_ExpiredRejected ==
    /\ Handled("verify-code") =>
          /\ (Found # None /\ Found.expires < now) =>
                /\ ~response.verified
                /\ HasError(response, "Verification code expired")
                /\ Left = None
          /\ Found = None => HasError(response, "No verification code found")
    /\ \A c \in DOMAIN before \ DOMAIN verification_codes :
          Handled("verify-code") /\ request.contact = c

\* C2 witness: the code issued last was sent back after its expiry, answered
\* 'expired', and its entry is gone.
C2_Witness ==
    /\ Handled("verify-code")
    /\ Found # None /\ Found.expires < now
    /\ request.code = Found.code
    /\ HasError(response, "Verification code expired")
    /\ Left = None

\* C3: the store holds entries of contacts only, one each; send and resend
\* replace the whole entry of their contact by the new code with expiry now + 10
\* minutes; no request touches another contact's entry; verify-code leaves its
\* contact's entry as it was or removes it, and accepts only the code issued last.
C3_LatestEntryOnly ==
    /\ DOMAIN verification_codes \subseteq Contacts
    /\ Handled("send-verification") =>
          /\ Left = [code |-> response.demo_code, expires |-> now + 10,
                      patient_id |-> request.patientId]
          /\ response.demo_code = LastIssued(request.contact)
          /\ OthersUntouched
    /\ Handled("resend-code") =>
          /\ Left = [code |-> response.demo_code, expires |-> now + 10]
          /\ response.demo_code = LastIssued(request.contact)
          /\ OthersUntouched
    /\ Handled("verify-code") =>
          /\ Left \in {Found, None}
          /\ OthersUntouched
          /\ response.verified =>
                /\ issued[request.contact] # <<>>
                /\ request.code = LastIssued(request.contact)

\* C3 witness: a resend replaced the entry of an earlier send by another code, and
\* the earlier code was then refused while the new entry stayed.
C3_Witness ==
    /\ Handled("verify-code")
    /\ Len(issued[request.contact]) = 2
    /\ issued[request.contact][1] # issued[request.contact][2]
    /\ request.code = issued[request.contact][1]
    /\ HasError(response, "Invalid verification code")
    /\ Left = [code |-> issued[request.contact][2], expires |-> Left.expires]

-----------------------------------------------------------------------------
(* The code generator of send_verification_code and resend_code, digit by digit *)

\* one turn of the list comprehension: str(np.random.randint(0, 9)) is appended
GenDigit ==
    /\ new_code = None
    /\ Len(digits) < CODE_LEN
    /\ \E d \in randint(RANDINT_LOW, RANDINT_HIGH) : digits' = Append(digits, str(d))
    /\ UNCHANGED new_code

\* ''.join(...) of the finished list: the characters in order
GenJoin ==
    /\ new_code = None
    /\ Len(digits) = CODE_LEN
    /\ new_code' = digits
    /\ UNCHANGED digits

\* the next request starts a new code
GenAgain ==
    /\ new_code # None
    /\ digits' = <<>>
    /\ new_code' = None

InitGen ==
    /\ IdleStore /\ IdleGen /\ IdleTriage /\ IdleFallback /\ IdleFacility /\ IdleConc

NextGen ==
    \/ /\ GenDigit
       /\ UNCHANGED <<storeVars, triageVars, fallbackVars, facilityVars, concVars>>
    \/ /\ GenJoin
       /\ UNCHANGED <<storeVars, triageVars, fallbackVars, facilityVars, concVars>>
    \/ /\ GenAgain
       /\ UNCHANGED <<storeVars, triageVars, fallbackVars, facilityVars, concVars>>

SpecGen == InitGen /\ [][NextGen]_vars

\* C4: an issued code has exactly 6 characters, each a digit 0..9, and at every
\* position each of the ten digits 0..9 can be the one generated.
C4_AllTenDigits ==
    /\ new_code # None => new_code \in [1..6 -> {DigitChars[i] : i \in 1..10}]
    /\ (new_code = None /\ Len(digits) < 6) =>
          \A i \in 1..10 : ENABLED (GenDigit /\ digits' = Append(digits, DigitChars[i]))

-----------------------------------------------------------------------------
(* The fallback rule engine *)

\* the symptom_mapping keys of prepare_features, in order
SymptomCodes ==
    <<"chest_pain", "difficulty_breathing", "severe_bleeding", "head_injury",
      "fever", "abdominal_pain", "allergic_reaction", "stroke_symptoms", "burn",
      "fracture", "headache", "rash", "cough", "nausea", "dizziness">>

Range(list) == {list[i] : i \in DOMAIN list}

\* patient_data.get(key, default)
get_or(dict, key, default) == IF key \in DOMAIN dict THEN dict[key] ELSE default

high_emergency_symptoms ==
    <<"chest_pain", "difficulty_breathing", "severe_bleeding",
      "head_injury", "allergic_reaction", "stroke_symptoms">>

fallback_emergency_level_with_burn(pd) ==
    LET symptom == get_or(pd, "symptoms", NoneStr)
    IN  IF symptom \in Range(high_emergency_symptoms) THEN "HIGH"
        ELSE IF symptom \in {"fever", "abdominal_pain", "fracture", "burn"} THEN "MEDIUM"
        ELSE "LOW"
fallback_emergency_level(pd) ==
    LET symptom == get_or(pd, "symptoms", NoneStr)
        age == get_or(pd, "age", 30)
    IN  IF symptom \in Range(high_emergency_symptoms) THEN "HIGH"
        ELSE IF symptom \in Range(<<"fever", "abdominal_pain", "fracture">>) THEN "MEDIUM"
        ELSE "LOW"

symptom_specialty_map ==
    [chest_pain |-> "Cardiologist", difficulty_breathing |-> "Pulmonologist",
     head_injury |-> "Neurologist", abdominal_pain |-> "Gastroenterologist",
     fracture |-> "Orthopedist", allergic_reaction |-> "Allergist",
     burn |-> "Dermatologist", rash |-> "Dermatologist"]

fallback_specialty(pd) ==
    get_or(symptom_specialty_map, get_or(pd, "symptoms", NoneStr), "General Practitioner")

\* the appointment time is a text, with the number put into it when there is one
fallback_appointment_time(emergency_level) ==
    IF emergency_level = "HIGH" THEN [text |-> "Immediate - Emergency Room"]
    ELSE IF emergency_level = "MEDIUM" THEN [text |-> "Today - Urgent Care"]
    ELSE [text |-> "Within 2-3 days"]

urgency_texts ==
    [HIGH |-> "URGENT - SEEK IMMEDIATE CARE", MEDIUM |-> "SEEK CARE TODAY",
     LOW |-> "SCHEDULE APPOINTMENT"]

get_urgency_text(emergency_level) ==
    get_or(urgency_texts, emergency_level, "CONSULT HEALTHCARE PROVIDER")

\* the request bodies tried: every symptom code, an unknown one or none, with
\* or without an age and a consent flag
Symptoms == Range(SymptomCodes) \cup {"sore_throat"}
Ages == {5, 80}
WithField(bodies, key, values) ==
    bodies \cup {put(pd, key, v) : pd \in bodies, v \in values}
TriageInputs == WithField(WithField({None}, "symptoms", Symptoms), "age", {80})
PatientInputs ==
    WithField(WithField(WithField({None}, "symptoms", Symptoms), "age", Ages),
              "locationConsent", {TRUE})

\* fallback_emergency_level is applied to a request body
ApplyFallback ==
    /\ level = NoneStr
    /\ level' = fallback_emergency_level(patient_data)
    /\ UNCHANGED patient_data

InitFallback ==
    /\ IdleStore /\ IdleGen /\ IdleFallback /\ IdleFacility /\ IdleConc
    /\ patient_data \in PatientInputs
    /\ models = None
    /\ calls = None
    /\ results = None

NextFallback ==
    /\ ApplyFallback
    /\ UNCHANGED <<storeVars, genVars, models, calls, results, facilityVars, concVars>>

SpecFallback == InitFallback /\ [][NextFallback]_vars

\* C7: whatever the age and the other fields, the fallback level is HIGH for
\* exactly the six named symptoms, MEDIUM for exactly fever, abdominal_pain and
\* fracture, and LOW for every other symptom, an unknown or a missing one included.
C7_LevelBySymptomAlone ==
    level # NoneStr =>
        LET symptom == IF "symptoms" \in DOMAIN patient_data
                       THEN patient_data["symptoms"] ELSE NoneStr
        IN  /\ level \in {"LOW", "MEDIUM", "HIGH"}
            /\ level = "HIGH" <=>
                  symptom \in {"chest_pain", "difficulty_breathing", "severe_bleeding",
                               "head_injury", "allergic_reaction", "stroke_symptoms"}
            /\ level = "MEDIUM" <=> symptom \in {"fever", "abdominal_pain", "fracture"}

\* C7 witness: burn, with an age given, got LOW.
C7_Witness ==
    /\ level = "LOW"
    /\ "symptoms" \in DOMAIN patient_data /\ patient_data["symptoms"] = "burn"
    /\ "age" \in DOMAIN patient_data /\ patient_data["age"] = 80

-----------------------------------------------------------------------------
(* The triage orchestrator: get_ml_predictions *)

\* results['confidence'] of the fallback path, 0.5, in percent
FALLBACK_CONFIDENCE == 50

emergency_levels == <<"LOW", "MEDIUM", "HIGH">>

specialties ==
    <<"General Practitioner", "Cardiologist", "Pulmonologist",
      "Neurologist", "Gastroenterologist", "Dermatologist",
      "Orthopedist", "Allergist", "Emergency Physician">>

\* list[i] of Python: i counts from 0, a negative i counts from the end,
\* and any other i raises IndexError
index_ok(list, i) == -Len(list) <= i /\ i < Len(list)
index(list, i) == IF i >= 0 THEN list[i + 1] ELSE list[Len(list) + i + 1]

min(a, b) == IF a < b THEN a ELSE b

\* int(x) of a quotient: the fraction is cut off, towards zero
int_div(a, b) == IF a >= 0 THEN a \div b ELSE -((-a) \div b)

\* format_wait_time(minutes), for minutes counted in half minutes
format_wait_time(half_minutes) ==
    IF half_minutes < 2 * 60
    THEN [text |-> "Within N minutes", N |-> int_div(half_minutes, 2)]
    ELSE IF half_minutes < 2 * 120
    THEN [text |-> "Within N hour", N |-> int_div(half_minutes, 2 * 60)]
    ELSE [text |-> "Within N hours", N |-> int_div(half_minutes, 2 * 60)]

\* str.lower() of an emergency level
lower(s) == [LOW |-> "low", MEDIUM |-> "medium", HIGH |-> "high"][s]

\* whether the try block of a field runs to its end: the model's calls return
\* and the decoding of what they returned raises nothing
emergency_try_ok(call) == ~call.raises /\ index_ok(emergency_levels, call.pred)
specialty_try_ok(call) ==
    ~call.raises /\ index_ok(specialties, min(call.pred, Len(specialties) - 1))
wait_try_ok(call) == ~call.raises

emergency_part(pd, loaded, call) ==
    IF loaded.emergency /\ emergency_try_ok(call.emergency)
    THEN [emergencyLevel |-> index(emergency_levels, call.emergency.pred),
          confidence |-> call.emergency.proba]
    ELSE [emergencyLevel |-> fallback_emergency_level(pd),
          confidence |-> FALLBACK_CONFIDENCE]

specialty_part(pd, loaded, call) ==
    IF loaded.specialty /\ specialty_try_ok(call.specialty)
    THEN index(specialties, min(call.specialty.pred, Len(specialties) - 1))
    ELSE fallback_specialty(pd)

wait_part(pd, loaded, call, emergency_level) ==
    IF loaded.wait_time /\ wait_try_ok(call.wait_time)
    THEN format_wait_time(call.wait_time.pred)
    ELSE fallback_appointment_time(emergency_level)

get_ml_predictions(pd, loaded, call) ==
    LET e == emergency_part(pd, loaded, call)
    IN  [emergencyLevel |-> e.emergencyLevel,
         confidence |-> e.confidence,
         recommendedDoctor |-> specialty_part(pd, loaded, call),
         appointmentTime |-> wait_part(pd, loaded, call, e.emergencyLevel),
         emergencyClass |-> <<"emergency-", lower(e.emergencyLevel)>>,
         badgeClass |-> <<"badge-", lower(e.emergencyLevel)>>,
         urgencyText |-> get_urgency_text(e.emergencyLevel)]

\* what a model does when it is called: it raises, or returns its prediction
NotCalled == [raises |-> TRUE, pred |-> 0, proba |-> 0]
Raises == [raises |-> TRUE, pred |-> 0, proba |-> 0]
Probas == {50, 87}
WaitPreds == {-3, 0, 119, 120, 239, 240}
EmergencyCalls ==
    {Raises} \cup {[raises |-> FALSE, pred |-> i, proba |-> q] :
                      i \in (-MaxClassIdx)..MaxClassIdx, q \in Probas}
SpecialtyCalls ==
    {Raises} \cup {[raises |-> FALSE, pred |-> i, proba |-> 0] :
                      i \in (-MaxSpecIdx)..MaxSpecIdx}
WaitCalls ==
    {Raises} \cup {[raises |-> FALSE, pred |-> m, proba |-> 0] : m \in WaitPreds}

\* analyze_symptoms: the request body, what each loaded model does, the answer
analyze_symptoms ==
    /\ results = None
    /\ \E pd \in TriageInputs,
          e \in (IF models.emergency THEN EmergencyCalls ELSE {NotCalled}),
          s \in (IF models.specialty THEN SpecialtyCalls ELSE {NotCalled}),
          w \in (IF models.wait_time THEN WaitCalls ELSE {NotCalled}) :
          /\ patient_data' = pd
          /\ calls' = [emergency |-> e, specialty |-> s, wait_time |-> w]
          /\ results' = get_ml_predictions(pd, models, calls')
    /\ UNCHANGED models

\* the answer is delivered
Delivered ==
    /\ results # None
    /\ patient_data' = None
    /\ calls' = None
    /\ results' = None
    /\ UNCHANGED models

\* the three pickles were loaded at start, or were not
InitTriage ==
    /\ IdleStore /\ IdleGen /\ IdleFallback /\ IdleFacility /\ IdleConc
    /\ models \in [emergency : BOOLEAN, specialty : BOOLEAN, wait_time : BOOLEAN]
    /\ patient_data = None
    /\ calls = None
    /\ results = None

NextTriage ==
    \/ /\ analyze_symptoms
       /\ UNCHANGED <<storeVars, genVars, fallbackVars, facilityVars, concVars>>
    \/ /\ Delivered
       /\ UNCHANGED <<storeVars, genVars, fallbackVars, facilityVars, concVars>>

SpecTriage == InitTriage /\ [][NextTriage]_vars

-----------------------------------------------------------------------------
(* Claims about the triage orchestrator *)

\* the model of a field is loaded and its calls for this request returned
EmergencySucceeded == models.emergency /\ ~calls.emergency.raises
SpecialtySucceeded == models.specialty /\ ~calls.specialty.raises
WaitSucceeded == models.wait_time /\ ~calls.wait_time.raises

Clamp(i, lo, hi) == IF i < lo THEN lo ELSE IF i > hi THEN hi ELSE i

\* C5: each field is decoded from its own model exactly when that model is
\* loaded and its call succeeds, and is its fallback function's value otherwise,
\* whatever the other two models do; confidence is the model's highest class
\* probability when the emergency model succeeded and 0.5 otherwise; a fallback
\* appointment time is the one of the final emergency level, so that the level,
\* the urgency text and the fallback appointment time always go together.
C5_FieldsIndependent ==
    results # None =>
      /\ EmergencySucceeded =>
            /\ results.emergencyLevel \in Range(emergency_levels)
            /\ calls.emergency.pred \in 0..2 =>
                  results.emergencyLevel = emergency_levels[calls.emergency.pred + 1]
            /\ results.confidence = calls.emergency.proba
      /\ ~EmergencySucceeded =>
            /\ results.emergencyLevel = fallback_emergency_level(patient_data)
            /\ results.confidence = 50
      /\ SpecialtySucceeded =>
            /\ results.recommendedDoctor \in Range(specialties)
            /\ calls.specialty.pred \in 0..8 =>
                  results.recommendedDoctor = specialties[calls.specialty.pred + 1]
      /\ ~SpecialtySucceeded =>
            results.recommendedDoctor = fallback_specialty(patient_data)
      /\ WaitSucceeded =>
            results.appointmentTime = format_wait_time(calls.wait_time.pred)
      /\ ~WaitSucceeded =>
            /\ results.appointmentTime = fallback_appointment_time(results.emergencyLevel)
            /\ results.emergencyLevel = "HIGH" =>
                  results.appointmentTime.text = "Immediate - Emergency Room"
            /\ results.emergencyLevel = "MEDIUM" =>
                  results.appointmentTime.text = "Today - Urgent Care"
            /\ results.emergencyLevel = "LOW" =>
                  results.appointmentTime.text = "Within 2-3 days"
      /\ results.emergencyLevel = "HIGH" =>
            results.urgencyText = "URGENT - SEEK IMMEDIATE CARE"
      /\ results.emergencyLevel = "MEDIUM" => results.urgencyText = "SEEK CARE TODAY"
      /\ results.emergencyLevel = "LOW" => results.urgencyText = "SCHEDULE APPOINTMENT"

\* C6: when the emergency model is loaded and predict and predict_proba return,
\* the level reported is the entry of [LOW, MEDIUM, HIGH] at the predicted class
\* clamped into 0..2, with the model's confidence, for every class predicted.
C6_LevelClamped ==
    (results # None /\ EmergencySucceeded) =>
      /\ results.emergencyLevel =
             emergency_levels[Clamp(calls.emergency.pred, 0, 2) + 1]
      /\ results.confidence = calls.emergency.proba

-----------------------------------------------------------------------------
(* The facility locator: find_nearby_facilities *)

MEDICAL_FACILITIES ==
    <<[name |-> "City General Hospital", type |-> "hospital", wait_time |-> 45],
      [name |-> "Downtown Medical Center", type |-> "hospital", wait_time |-> 30],
      [name |-> "Community Urgent Care", type |-> "urgent_care", wait_time |-> 15],
      [name |-> "Westside Clinic", type |-> "clinic", wait_time |-> 10],
      [name |-> "Emergency Trauma Center", type |-> "hospital", wait_time |-> 60]>>

TOP_N == 5

\* round(distance, 1), in tenths of a mile, of a distance in fixed-point units
round1(d) == (2 * d + UnitsPerTenth) \div (2 * UnitsPerTenth)

\* {**facility, 'distance': round(distance, 1), 'distance_units': 'miles'}
with_distance(facility, d) ==
    [name |-> facility.name, type |-> facility.type, wait_time |-> facility.wait_time,
     distance |-> round1(d), distance_units |-> "miles"]

\* the loop over MEDICAL_FACILITIES: those within the radius, in list order
RECURSIVE within_radius(_, _, _)
within_radius(i, dist, r) ==
    IF i > Len(MEDICAL_FACILITIES) THEN <<>>
    ELSE IF dist[i] <= r
         THEN <<with_distance(MEDICAL_FACILITIES[i], dist[i])>> \o within_radius(i + 1, dist, r)
         ELSE within_radius(i + 1, dist, r)

\* list.sort(key=lambda x: x['distance']): ascending by the key, and stable
RECURSIVE insert(_, _)
insert(sorted, x) ==
    IF sorted = <<>> THEN <<x>>
    ELSE IF sorted[Len(sorted)].distance <= x.distance THEN Append(sorted, x)
    ELSE Append(insert(SubSeq(sorted, 1, Len(sorted) - 1), x), sorted[Len(sorted)])

RECURSIVE sort_by_distance(_)
sort_by_distance(list) ==
    IF list = <<>> THEN <<>>
    ELSE insert(sort_by_distance(SubSeq(list, 1, Len(list) - 1)), list[Len(list)])

\* list[:n]
first_n(list, n) == SubSeq(list, 1, min(n, Len(list)))

\* the handler: the distances calculate_distance returns for the user's
\* location, the radius, and the 'facilities' of the answer
find_nearby_facilities ==
    /\ distances = None
    /\ \E dist \in [1..Len(MEDICAL_FACILITIES) -> 0..MaxDist], r \in 0..MaxDist :
          /\ distances' = dist
          /\ radius' = r
          /\ facilities' = first_n(sort_by_distance(within_radius(1, dist, r)), TOP_N)

\* the answer is delivered
FacilitiesDelivered ==
    /\ distances # None
    /\ distances' = None
    /\ radius' = None
    /\ facilities' = None

InitFacility ==
    /\ IdleStore /\ IdleGen /\ IdleTriage /\ IdleFallback /\ IdleFacility /\ IdleConc

NextFacility ==
    \/ /\ find_nearby_facilities
       /\ UNCHANGED <<storeVars, genVars, triageVars, fallbackVars, concVars>>
    \/ /\ FacilitiesDelivered
       /\ UNCHANGED <<storeVars, genVars, triageVars, fallbackVars, concVars>>

SpecFacility == InitFacility /\ [][NextFacility]_vars

\* the distance calculate_distance returned for a facility of the answer
Actual(entry) ==
    distances[CHOOSE i \in 1..Len(MEDICAL_FACILITIES) : MEDICAL_FACILITIES[i].name = entry.name]

\* C8: the answer lists exactly the facilities whose distance is within the
\* radius, at most 5, in ascending order of their actual distance: none comes
\* before one that is strictly closer; radius 0 away from every facility lists none.
C8_SortedByActualDistance ==
    distances # None =>
      /\ Len(facilities) <= 5
      /\ {facilities[i].name : i \in 1..Len(facilities)} =
             {MEDICAL_FACILITIES[i].name : i \in {j \in 1..5 : distances[j] <= radius}}
      /\ \A i, j \in 1..Len(facilities) :
             i < j => Actual(facilities[i]) <= Actual(facilities[j])
      /\ (radius = 0 /\ \A i \in 1..5 : distances[i] > 0) => facilities = <<>>

-----------------------------------------------------------------------------
(* The store under concurrent requests for one contact: every access of a   *)
(* handler to verification_codes is a step of its own                       *)

Senders == {"send"}
Resenders == {"resend"}
Verifiers == {"verify1", "verify2"}
Requests == Senders \cup Resenders \cup Verifiers
RaceContact == "a@x.com"

\* the except clause of a handler: the exception's text, with status 500
Failed(text) == [status |-> 500, verified |-> FALSE, success |-> FALSE, error |-> text]

\* send_verification_code: the code is generated and the entry assigned
SendStore(p) ==
    /\ pc[p] = "start"
    /\ \E k \in SampleCodes, id \in PatientIds :
          /\ k \in generated_codes
          /\ LET entry == send_entry(k, now, id, get(verification_codes, RaceContact))
             IN  /\ verification_codes' = put(verification_codes, RaceContact, entry)
                 /\ written' = Append(written, entry)
          /\ local_code' = [local_code EXCEPT ![p] = k]
          /\ outcome' = [outcome EXCEPT
                            ![p] = [status |-> 200, success |-> TRUE, demo_code |-> k]]
    /\ pc' = [pc EXCEPT ![p] = "done"]
    /\ UNCHANGED <<stored_data, now>>

\* resend_code: the code is generated and the entry assigned
ResendStore(p) ==
    /\ pc[p] = "start"
    /\ \E k \in SampleCodes :
          /\ k \in generated_codes
          /\ verification_codes' = put(verification_codes, RaceContact, resend_entry(k, now))
          /\ written' = Append(written, resend_entry(k, now))
          /\ local_code' = [local_code EXCEPT ![p] = k]
          /\ outcome' = [outcome EXCEPT
                            ![p] = [status |-> 200, success |-> TRUE, demo_code |-> k]]
    /\ pc' = [pc EXCEPT ![p] = "done"]
    /\ UNCHANGED <<stored_data, now>>

\* verify_code: stored_data = verification_codes.get(contact)
VerifyGet(p) ==
    /\ pc[p] = "start"
    /\ \E k \in VerifyCodes : local_code' = [local_code EXCEPT ![p] = k]
    /\ stored_data' = [stored_data EXCEPT ![p] = get(verification_codes, RaceContact)]
    /\ pc' = [pc EXCEPT ![p] = "check"]
    /\ UNCHANGED <<verification_codes, now, outcome, written>>

\* verify_code: the tests of stored_data, up to a del or a return
VerifyCheck(p) ==
    /\ pc[p] = "check"
    /\ IF stored_data[p] # None /\ is_expired(stored_data[p], now)
       THEN pc' = [pc EXCEPT ![p] = "del_expired"] /\ UNCHANGED outcome
       ELSE IF stored_data[p] # None /\ stored_data[p].code = local_code[p]
       THEN pc' = [pc EXCEPT ![p] = "del_matched"] /\ UNCHANGED outcome
       ELSE /\ pc' = [pc EXCEPT ![p] = "done"]
            /\ outcome' = [outcome EXCEPT
                              ![p] = VerifyAnswer(stored_data[p], local_code[p], now)]
    /\ UNCHANGED <<verification_codes, now, stored_data, local_code, written>>

\* verify_code: del verification_codes[contact] and the return after it, or a
\* KeyError, caught by the handler's except, when the key is gone
VerifyDel(p) ==
    /\ pc[p] \in {"del_expired", "del_matched"}
    /\ IF RaceContact \in DOMAIN verification_codes
       THEN /\ verification_codes' = del(verification_codes, RaceContact)
            /\ outcome' = [outcome EXCEPT ![p] =
                   IF pc[p] = "del_expired"
                   THEN [status |-> 200, verified |-> FALSE,
                         error |-> "Verification code expired"]
                   ELSE [status |-> 200, verified |-> TRUE,
                         message |-> "Verification successful"]]
       ELSE /\ outcome' = [outcome EXCEPT ![p] = Failed("KeyError")]
            /\ UNCHANGED verification_codes
    /\ pc' = [pc EXCEPT ![p] = "done"]
    /\ UNCHANGED <<now, stored_data, local_code, written>>

\* time passes while the requests run
ConcTick ==
    /\ now + TickMinutes <= MaxTime
    /\ now' = now + TickMinutes
    /\ UNCHANGED <<verification_codes, concVars>>

InitConc ==
    /\ IdleGen /\ IdleTriage /\ IdleFallback /\ IdleFacility
    /\ verification_codes = <<>>
    /\ now = 0
    /\ request = None
    /\ response = None
    /\ before = None
    /\ accepted = [c \in Contacts |-> 0]
    /\ issued = [c \in Contacts |-> <<>>]
    /\ pc = [p \in Requests |-> "start"]
    /\ stored_data = [p \in Verifiers |-> None]
    /\ local_code = [p \in Requests |-> None]
    /\ outcome = [p \in Requests |-> None]
    /\ written = <<>>

\* what the concurrent requests leave alone
concIdle == <<request, response, before, accepted, issued,
              genVars, triageVars, fallbackVars, facilityVars>>

NextConc ==
    \/ \E p \in Senders : SendStore(p) /\ UNCHANGED concIdle
    \/ \E p \in Resenders : ResendStore(p) /\ UNCHANGED concIdle
    \/ \E p \in Verifiers : VerifyGet(p) /\ UNCHANGED concIdle
    \/ \E p \in Verifiers : VerifyCheck(p) /\ UNCHANGED concIdle
    \/ \E p \in Verifiers : VerifyDel(p) /\ UNCHANGED concIdle
    \/ ConcTick /\ UNCHANGED concIdle

SpecConc == InitConc /\ [][NextConc]_vars

-----------------------------------------------------------------------------
(* Claims about concurrent requests for one contact *)

\* C9: however the steps of concurrent send, resend and verify requests for one
\* contact interleave, the entry in the store is the one written last, what a
\* verify compares with is a whole entry that some send or resend wrote, and no
\* request ends in an error.
C9_BenignRace ==
    /\ RaceContact \in DOMAIN verification_codes =>
          verification_codes[RaceContact] = written[Len(written)]
    /\ \A p \in Verifiers :
          stored_data[p] # None => stored_data[p] \in Range(written)
    /\ \A p \in Requests : outcome[p] # None => outcome[p].status = 200

\* C10: the entry written last by a send or resend is in the store unless a verify
\* that read that very entry found it expired or matching: a verify never deletes
\* an entry newer than the one it read.
C10_DeletesOnlyWhatItRead ==
    written # <<>> =>
      \/ get(verification_codes, RaceContact) = written[Len(written)]
      \/ \E p \in Verifiers :
            /\ stored_data[p] = written[Len(written)]
            /\ pc[p] = "done"
            /\ outcome[p].status = 200
            /\ outcome[p].verified \/ HasError(outcome[p], "Verification code expired")

====
